---- MODULE Spec2Model ----
(***************************************************************************)
(* TaskMaster Pro (src/script.js): the TaskManager store, its query, and   *)
(* its persistence in the localStorage slot 'tasks'.                       *)
(*                                                                         *)
(* Strings are sequences of one-character strings, so that trim(),         *)
(* toLowerCase() and includes() are computed and not assumed.  Date.now()  *)
(* is the variable now, in milliseconds.                                   *)
(***************************************************************************)
EXTENDS Integers, Sequences, FiniteSets, TLC

VARIABLES
  pc,            \* "unloaded" | "ready" | "crashed" (an uncaught error ended the script)
  tasks,         \* this.tasks
  currentFilter, \* this.currentFilter
  searchTerm,    \* this.searchTerm
  storage,       \* the localStorage slot 'tasks'
  now,           \* Date.now()
  op,            \* history: the last handler that ran, with its inputs
  pre,           \* history: this.tasks before that handler
  preStore,      \* history: the slot before that handler
  writes         \* history: the localStorage.setItem calls that handler made

vars == <<pc, tasks, currentFilter, searchTerm, storage, now, op, pre, preStore, writes>>

----------------------------------------------------------------------------
(* Bounds of the model *)

MaxTasks == 4
MaxTicks == 1
ClockStart == 10

(* Program constants *)

MsPerDay == 86400000

----------------------------------------------------------------------------
(* Strings *)

Upper ==
  <<"A","B","C","D","E","F","G","H","I","J","K","L","M","N","O","P","Q","R","S","T","U","V","W","X","Y","Z">>

Lower ==
  <<"a","b","c","d","e","f","g","h","i","j","k","l","m","n","o","p","q","r","s","t","u","v","w","x","y","z">>

Whitespace == {" ", "\t", "\n"}

Digits == <<"0","1","2","3","4","5","6","7","8","9">>

toLowerCaseChar(c) ==
  IF \E i \in 1..Len(Upper) : Upper[i] = c
  THEN Lower[CHOOSE i \in 1..Len(Upper) : Upper[i] = c]
  ELSE c

toLowerCase(s) == [i \in 1..Len(s) |-> toLowerCaseChar(s[i])]

RECURSIVE trimStart(_)
trimStart(s) ==
  IF s # <<>> /\ Head(s) \in Whitespace THEN trimStart(Tail(s)) ELSE s

RECURSIVE trimEnd(_)
trimEnd(s) ==
  IF s # <<>> /\ s[Len(s)] \in Whitespace
  THEN trimEnd(SubSeq(s, 1, Len(s) - 1))
  ELSE s

(* Mutant of trim: the value is taken as typed. *)
trimNothing(s) == s

trim(s) == trimEnd(trimStart(s))

includes(s, t) ==
  \E i \in 0..(Len(s) - Len(t)) : SubSeq(s, i + 1, i + Len(t)) = t

RECURSIVE numberToString(_)
numberToString(n) ==
  IF n < 10 THEN <<Digits[n + 1]>>
  ELSE numberToString(n \div 10) \o <<Digits[(n % 10) + 1]>>

(* new Date(ms).toISOString(): the date part, "T", the time of day, "Z".  *)
(* The calendar date is written as its day number and the time of day as  *)
(* its millisecond number: both are one-to-one with what JavaScript        *)
(* prints.                                                                 *)
toISOString(ms) ==
  numberToString(ms \div MsPerDay) \o <<"T">> \o numberToString(ms % MsPerDay) \o <<"Z">>

(* s.split('T')[0] *)
RECURSIVE splitTFirst(_)
splitTFirst(s) ==
  IF s = <<>> \/ Head(s) = "T" THEN <<>> ELSE <<Head(s)>> \o splitTFirst(Tail(s))

----------------------------------------------------------------------------
(* Tasks *)

Task(id, title, description, dueDate, priority, completed, createdAt) ==
  [id |-> id, title |-> title, description |-> description, dueDate |-> dueDate,
   priority |-> priority, completed |-> completed, createdAt |-> createdAt]

sampleTasks(t) ==
  << Task(<<"1">>,
          <<"W","e","l","c","o","m","e"," ","t","o"," ","T","a","s","k","M","a","s","t","e","r"," ","P","r","o","!">>,
          <<"T","h","i","s"," ","i","s"," ","a"," ","s","a","m","p","l","e"," ","t","a","s","k","."," ","Y","o","u"," ","c","a","n"," ","e","d","i","t"," ","o","r"," ","d","e","l","e","t","e"," ","i","t",".">>,
          splitTFirst(toISOString(t + 86400000)), "high", FALSE, toISOString(t)),
     Task(<<"2">>,
          <<"C","o","m","p","l","e","t","e"," ","C","S","E"," ","3","1","0"," ","m","o","d","u","l","e">>,
          <<"W","o","r","k"," ","o","n"," ","t","h","e"," ","W","e","b"," ","A","p","p","s"," ","m","o","d","u","l","e"," ","p","r","o","j","e","c","t">>,
          splitTFirst(toISOString(t + 172800000)), "medium", FALSE, toISOString(t)),
     Task(<<"3">>,
          <<"L","e","a","r","n"," ","J","a","v","a","S","c","r","i","p","t"," ","E","S","6"," ","f","e","a","t","u","r","e","s">>,
          <<"S","t","u","d","y"," ","a","r","r","o","w"," ","f","u","n","c","t","i","o","n","s",","," ","d","e","s","t","r","u","c","t","u","r","i","n","g",","," ","a","n","d"," ","m","o","d","u","l","e","s">>,
          splitTFirst(toISOString(t + 259200000)), "low", TRUE, toISOString(t)) >>

idsOf(ts) == {ts[i].id : i \in 1..Len(ts)}

(* An id no task ever has: Date.now() is at least ClockStart. *)
NoSuchId == <<"0">>

----------------------------------------------------------------------------
(* What the user can put into the form (#taskTitle, #taskDescription,     *)
(* #dueDate, #priority) before submitting it.                              *)

Draft(title, description, dueDate, priority) ==
  [title |-> title, description |-> description, dueDate |-> dueDate, priority |-> priority]

Drafts ==
  { Draft(<<>>, <<>>, <<>>, "medium"),                    \* the form as resetForm() leaves it
    Draft(<<" ", "\t">>, <<"x">>, <<>>, "low"),           \* a whitespace-only title
    Draft(<<" ","B","u","y"," ","M","i","l","k"," ">>, <<" ">>, <<"7">>, "low") }

Filters == {"all", "active", "completed"}

SearchInputs ==
  { <<>>,
    <<"M","o","D","u","l","e">>,
    <<"m","o","d","u","l","e">>,
    <<"J","A","V","A">> }

----------------------------------------------------------------------------
(* Persistence: the slot holds nothing, or a string.  A string written by  *)
(* saveTasks is the JSON text of the array; text stands for what           *)
(* JSON.stringify writes: one object per task, its members in insertion   *)
(* order, a string member as its characters and a boolean as the literal  *)
(* true or false.                                                          *)

Slot(kind, items) == [kind |-> kind, items |-> items]

NoItem == Slot("absent", <<>>)        \* getItem returns null
EmptyText == Slot("empty", <<>>)      \* the empty string
Garbage == Slot("garbage", <<>>)      \* a string that is no JSON text
JsonNull == Slot("null", <<>>)        \* the JSON text null: no array

stringifyTask(t) ==
  << <<"id", t.id>>, <<"title", t.title>>, <<"description", t.description>>,
     <<"dueDate", t.dueDate>>, <<"priority", <<t.priority>> >>,
     <<"completed", IF t.completed THEN <<"true">> ELSE <<"false">> >>,
     <<"createdAt", t.createdAt>> >>

stringify(ts) == Slot("array", [i \in 1..Len(ts) |-> stringifyTask(ts[i])])

member(obj, key) == (CHOOSE m \in {obj[i] : i \in 1..Len(obj)} : m[1] = key)[2]

parseTask(obj) ==
  Task(member(obj, "id"), member(obj, "title"), member(obj, "description"),
       member(obj, "dueDate"), member(obj, "priority")[1],
       member(obj, "completed") = <<"true">>, member(obj, "createdAt"))

(* JSON.parse: throws SyntaxError on a string that is no JSON text. *)
parse(slot) ==
  CASE slot.kind = "array" ->
         [threw |-> FALSE, isArray |-> TRUE,
          value |-> [i \in 1..Len(slot.items) |-> parseTask(slot.items[i])]]
    [] slot.kind = "null" -> [threw |-> FALSE, isArray |-> FALSE, value |-> <<>>]
    [] OTHER -> [threw |-> TRUE, isArray |-> FALSE, value |-> <<>>]

(* saved ? JSON.parse(saved) : []  -- null and the empty string are falsy *)
loadTasks(slot) ==
  IF slot.kind \in {"absent", "empty"}
  THEN [threw |-> FALSE, isArray |-> TRUE, value |-> <<>>]
  ELSE parse(slot)

saveTasks(ts) == stringify(ts)

----------------------------------------------------------------------------
(* Query *)

(* Mutant of matchesSearch: the task's text is compared as stored. *)
matchesSearchCaseSensitive(task, term) ==
  \/ includes(task.title, term)
  \/ (task.description # <<>> /\ includes(task.description, term))

matchesSearch(task, term) ==
  \/ includes(toLowerCase(task.title), term)
  \/ (task.description # <<>> /\ includes(toLowerCase(task.description), term))

(* Mutant of getFilteredTasks: the two status filters are exchanged. *)
getFilteredTasksSwapped(ts, filter, term) ==
  LET byStatus ==
        IF filter = "active" THEN SelectSeq(ts, LAMBDA t : t.completed)
        ELSE IF filter = "completed" THEN SelectSeq(ts, LAMBDA t : ~t.completed)
        ELSE ts
  IN IF term # <<>>
     THEN SelectSeq(byStatus, LAMBDA t : matchesSearch(t, term))
     ELSE byStatus

getFilteredTasks(ts, filter, term) ==
  LET byStatus ==
        IF filter = "active" THEN SelectSeq(ts, LAMBDA t : ~t.completed)
        ELSE IF filter = "completed" THEN SelectSeq(ts, LAMBDA t : t.completed)
        ELSE ts
  IN IF term # <<>>
     THEN SelectSeq(byStatus, LAMBDA t : matchesSearch(t, term))
     ELSE byStatus

(* What render() puts into #tasksList: every handler that changes the    *)
(* collection, the filter or the term ends by calling it.                *)
view == getFilteredTasks(tasks, currentFilter, searchTerm)

----------------------------------------------------------------------------
(* History *)

Op(name, id, flag, text, rep, err) ==
  [name |-> name, id |-> id, flag |-> flag, text |-> text, rep |-> rep, err |-> err]

----------------------------------------------------------------------------
(* The state before the script has run: the slot holds what the browser    *)
(* profile holds.                                                          *)

Init ==
  /\ pc = "unloaded"
  /\ tasks = <<>>
  /\ currentFilter = "all"
  /\ searchTerm = <<>>
  /\ storage \in {NoItem, EmptyText, Garbage, JsonNull}
  /\ now = ClockStart
  /\ op = Op("none", <<>>, FALSE, <<>>, FALSE, "none")
  /\ pre = <<>>
  /\ preStore = storage
  /\ writes = 0

(* The clock advances. *)
Tick ==
  /\ now < ClockStart + MaxTicks
  /\ now' = now + 1
  /\ op' = Op("tick", <<>>, FALSE, <<>>, FALSE, "none")
  /\ pre' = tasks
  /\ preStore' = storage
  /\ writes' = 0
  /\ UNCHANGED <<pc, tasks, currentFilter, searchTerm, storage>>

(* The page is loaded (or loaded again): new TaskManager(), then the       *)
(* sample tasks when the collection is empty.                              *)
Startup ==
  LET loaded == loadTasks(storage) IN
  /\ pre' = tasks
  /\ preStore' = storage
  /\ currentFilter' = "all"
  /\ searchTerm' = <<>>
  /\ now' = now
  /\ IF loaded.threw
     THEN \* JSON.parse throws inside the constructor
          /\ pc' = "crashed"
          /\ tasks' = <<>>
          /\ storage' = storage
          /\ writes' = 0
          /\ op' = Op("startup", <<>>, FALSE, <<>>, FALSE, "SyntaxError")
     ELSE IF ~loaded.isArray
     THEN \* render() reads .length of what is no array
          /\ pc' = "crashed"
          /\ tasks' = <<>>
          /\ storage' = storage
          /\ writes' = 0
          /\ op' = Op("startup", <<>>, FALSE, <<>>, FALSE, "TypeError")
     ELSE IF Len(loaded.value) = 0
     THEN /\ pc' = "ready"
          /\ tasks' = sampleTasks(now)
          /\ storage' = saveTasks(tasks')
          /\ writes' = 1
          /\ op' = Op("startup", <<>>, TRUE, <<>>, FALSE, "none")
     ELSE /\ pc' = "ready"
          /\ tasks' = loaded.value
          /\ storage' = storage
          /\ writes' = 0
          /\ op' = Op("startup", <<>>, FALSE, <<>>, FALSE, "none")

(* Mutant of unshift: push, the new task goes last. *)
unshiftAsPush(ts, t) == Append(ts, t)

unshift(ts, t) == <<t>> \o ts

(* The form is submitted with draft d in it. *)
addTask(d) ==
  LET title == trim(d.title)
      description == trim(d.description)
      task == Task(numberToString(now), title, description, d.dueDate, d.priority,
                   FALSE, toISOString(now))
  IN
  /\ pc = "ready"
  /\ pre' = tasks
  /\ preStore' = storage
  /\ IF title = <<>>
     THEN /\ op' = Op("addTask", <<>>, FALSE, d.title, FALSE, "none")
          /\ writes' = 0
          /\ UNCHANGED <<pc, tasks, currentFilter, searchTerm, storage, now>>
     ELSE /\ Len(tasks) < MaxTasks
          /\ tasks' = unshift(tasks, task)
          /\ storage' = saveTasks(tasks')
          /\ writes' = 1
          /\ op' = Op("addTask", task.id, TRUE, d.title, FALSE, "none")
          /\ UNCHANGED <<pc, currentFilter, searchTerm, now>>

(* Mutant of withoutId: only the first task with the id is removed. *)
withoutFirstWithId(ts, id) ==
  IF id \notin {ts[i].id : i \in 1..Len(ts)} THEN ts
  ELSE LET k == CHOOSE i \in 1..Len(ts) : ts[i].id = id /\ \A j \in 1..(i - 1) : ts[j].id # id
       IN SubSeq(ts, 1, k - 1) \o SubSeq(ts, k + 1, Len(ts))

(* this.tasks.filter(t => t.id !== id) *)
withoutId(ts, id) == SelectSeq(ts, LAMBDA t : t.id # id)

(* The edit button of task id: the form takes the task's values (the user  *)
(* may then submit them as a draft), and the task leaves the collection.   *)
editTask(id) ==
  /\ pc = "ready"
  /\ pre' = tasks
  /\ preStore' = storage
  /\ IF id \notin idsOf(tasks)
     THEN /\ op' = Op("editTask", id, FALSE, <<>>, FALSE, "none")
          /\ writes' = 0
          /\ UNCHANGED <<pc, tasks, currentFilter, searchTerm, storage, now>>
     ELSE /\ tasks' = withoutId(tasks, id)
          /\ storage' = saveTasks(tasks')
          /\ writes' = 1
          /\ op' = Op("editTask", id, TRUE, <<>>, FALSE, "none")
          /\ UNCHANGED <<pc, currentFilter, searchTerm, now>>

(* The delete button of task id; confirmed is the answer to confirm(). *)
deleteTask(id, confirmed) ==
  /\ pc = "ready"
  /\ pre' = tasks
  /\ preStore' = storage
  /\ op' = Op("deleteTask", id, confirmed, <<>>,
              op.name = "deleteTask" /\ op.id = id /\ op.flag /\ id \in idsOf(pre),
              "none")
  /\ IF confirmed
     THEN /\ tasks' = withoutId(tasks, id)
          /\ storage' = saveTasks(tasks')
          /\ writes' = 1
          /\ UNCHANGED <<pc, currentFilter, searchTerm, now>>
     ELSE /\ writes' = 0
          /\ UNCHANGED <<pc, tasks, currentFilter, searchTerm, storage, now>>

(* Mutant of toggled: the task is marked completed instead of flipped. *)
toggledAsCompleted(ts, id) ==
  [i \in 1..Len(ts) |->
     IF ts[i].id = id THEN [ts[i] EXCEPT !.completed = TRUE] ELSE ts[i]]

(* this.tasks.map(task => task.id === id ? {...task, completed: !task.completed} : task) *)
toggled(ts, id) ==
  [i \in 1..Len(ts) |->
     IF ts[i].id = id THEN [ts[i] EXCEPT !.completed = ~ts[i].completed] ELSE ts[i]]

(* Mutant of toggleTask: the changed collection is not saved. *)
toggleTaskUnsaved(id) ==
  /\ pc = "ready"
  /\ pre' = tasks
  /\ preStore' = storage
  /\ tasks' = toggled(tasks, id)
  /\ writes' = 0
  /\ op' = Op("toggleTask", id, TRUE, <<>>, op.name = "toggleTask" /\ op.id = id, "none")
  /\ UNCHANGED <<pc, currentFilter, searchTerm, storage, now>>

(* The checkbox of task id. *)
toggleTask(id) ==
  /\ pc = "ready"
  /\ pre' = tasks
  /\ preStore' = storage
  /\ tasks' = toggled(tasks, id)
  /\ storage' = saveTasks(tasks')
  /\ writes' = 1
  /\ op' = Op("toggleTask", id, TRUE, <<>>, op.name = "toggleTask" /\ op.id = id, "none")
  /\ UNCHANGED <<pc, currentFilter, searchTerm, now>>

(* A filter button. *)
setFilter(filter) ==
  /\ pc = "ready"
  /\ pre' = tasks
  /\ preStore' = storage
  /\ currentFilter' = filter
  /\ op' = Op("setFilter", <<>>, TRUE, <<filter>>, FALSE, "none")
  /\ writes' = 0
  /\ UNCHANGED <<pc, tasks, searchTerm, storage, now>>

(* The 'input' handler of #searchInput, value being what the field holds. *)
searchInput(value) ==
  /\ pc = "ready"
  /\ pre' = tasks
  /\ preStore' = storage
  /\ searchTerm' = toLowerCase(value)
  /\ op' = Op("searchInput", <<>>, TRUE, value, FALSE, "none")
  /\ writes' = 0
  /\ UNCHANGED <<pc, tasks, currentFilter, storage, now>>

(* The ids a button of the page, or a call from the console, can name. *)
IdInputs == idsOf(tasks) \cup idsOf(pre) \cup {NoSuchId}

(* The handlers that change the collection or the slot, and the clock. *)
NextStore ==
  \/ Tick
  \/ Startup
  \/ \E d \in Drafts : addTask(d)
  \/ \E id \in IdInputs : editTask(id)
  \/ \E id \in IdInputs, confirmed \in BOOLEAN : deleteTask(id, confirmed)
  \/ \E id \in IdInputs : toggleTask(id)

(* The handlers that change what is shown. *)
NextView ==
  \/ \E filter \in Filters : setFilter(filter)
  \/ \E value \in SearchInputs : searchInput(value)

(* The query, over the collections that loading, adding, deleting and      *)
(* toggling produce within one millisecond.                                *)
NextQuery ==
  \/ Startup
  \/ \E d \in Drafts : addTask(d)
  \/ \E id \in IdInputs, confirmed \in BOOLEAN : deleteTask(id, confirmed)
  \/ \E id \in IdInputs : toggleTask(id)
  \/ NextView

(* Every handler of the page and the page load, within one millisecond. *)
NextSession ==
  \/ NextQuery
  \/ \E id \in IdInputs : editTask(id)

Next == NextStore \/ NextView

Spec == Init /\ [][Next]_vars

SpecStore == Init /\ [][NextStore]_vars

SpecQuery == Init /\ [][NextQuery]_vars

SpecSession == Init /\ [][NextSession]_vars

----------------------------------------------------------------------------
(* Properties.  They are stated without the operators the handlers are     *)
(* built from, so that they say what the handlers must do.                 *)

IsBlank(s) == \A i \in 1..Len(s) : s[i] \in Whitespace

RECURSIVE dropId(_, _)
dropId(ts, id) ==
  IF ts = <<>> THEN <<>>
  ELSE IF Head(ts).id = id THEN dropId(Tail(ts), id)
  ELSE <<Head(ts)>> \o dropId(Tail(ts), id)

RECURSIVE pick(_, _)
pick(ts, completed) ==
  IF ts = <<>> THEN <<>>
  ELSE IF Head(ts).completed = completed THEN <<Head(ts)>> \o pick(Tail(ts), completed)
  ELSE pick(Tail(ts), completed)

(* C1: after startup and after every handler no two tasks of the          *)
(* collection have the same id, and an accepted addTask gives the new     *)
(* task an id no task already in the collection has.                      *)
C1_UniqueIds ==
  pc = "ready" =>
    /\ \A i, j \in 1..Len(tasks) : i # j => tasks[i].id # tasks[j].id
    /\ (op.name = "addTask" /\ op.flag) => Head(tasks).id \notin idsOf(pre)

(* C2: addTask with a title that is not blank makes the collection one    *)
(* longer; the new task is first in the collection and in the unfiltered, *)
(* unsearched query, it is not completed, and the tasks that were there   *)
(* follow it in their order.                                               *)
C2_AddPrepends ==
  (pc = "ready" /\ op.name = "addTask" /\ ~IsBlank(op.text)) =>
    /\ Len(tasks) = Len(pre) + 1
    /\ Tail(tasks) = pre
    /\ Head(tasks).completed = FALSE
    /\ Head(tasks).id = op.id
    /\ Head(getFilteredTasks(tasks, "all", <<>>)) = Head(tasks)

C2_Witness ==
  pc = "ready" /\ op.name = "addTask" /\ ~IsBlank(op.text) /\ Len(pre) >= 2

(* C3: addTask with an empty or whitespace-only title leaves the          *)
(* collection and the slot as they were.                                   *)
C3_BlankRejected ==
  (pc = "ready" /\ op.name = "addTask" /\ IsBlank(op.text)) =>
    (tasks = pre /\ storage = preStore)

C3_Witness ==
  /\ pc = "ready" /\ op.name = "addTask"
  /\ op.text # <<>> /\ IsBlank(op.text) /\ pre # <<>>

(* C4: a startup that finds the slot missing, or holding a string that is *)
(* no JSON text, completes with no error; loadTasks gave the empty        *)
(* collection (which startup then fills with the sample tasks).           *)
C4_LoadNeverThrows ==
  (op.name = "startup" /\ preStore.kind \in {"absent", "empty", "garbage"}) =>
    (pc = "ready" /\ op.err = "none" /\ tasks = sampleTasks(now))

(* C5: a collection that was saved and is loaded by a restart of the      *)
(* program comes back with the same tasks in the same order, the empty    *)
(* collection included.                                                    *)
C5_RoundTrip ==
  (op.name = "startup" /\ preStore = saveTasks(pre)) =>
    (pc = "ready" /\ tasks = pre)

(* C6: deleteTask of an id no task has leaves the collection as it was,   *)
(* confirmed or not; a confirmed deleteTask of an id some task has        *)
(* removes every task with that id and no other; so deleteTask of the id  *)
(* just deleted changes nothing.                                           *)
C6_DeleteIdempotent ==
  (pc = "ready" /\ op.name = "deleteTask") =>
    /\ (op.id \notin idsOf(pre)) => tasks = pre
    /\ (op.id \in idsOf(pre) /\ op.flag) =>
         (tasks = dropId(pre, op.id) /\ op.id \notin idsOf(tasks))
    /\ op.rep => tasks = pre

C6_Witness ==
  /\ pc = "ready" /\ op.name = "deleteTask" /\ op.flag /\ op.rep
  /\ tasks # <<>>

(* C7: toggleTask flips completed on the tasks with the id and changes    *)
(* nothing else (nothing at all when no task has the id); toggleTask of   *)
(* the same id a second time gives back the collection from before the    *)
(* first.                                                                  *)
C7_ToggleInvolution ==
  [][ (pc = "ready" /\ op'.name = "toggleTask") =>
        /\ Len(tasks') = Len(tasks)
        /\ \A i \in 1..Len(tasks) :
             IF tasks[i].id = op'.id
             THEN /\ tasks'[i].completed = ~tasks[i].completed
                  /\ [tasks'[i] EXCEPT !.completed = tasks[i].completed] = tasks[i]
             ELSE tasks'[i] = tasks[i]
        /\ (op.name = "toggleTask" /\ op.id = op'.id) => tasks' = pre
    ]_vars

C7_Witness ==
  /\ pc = "ready" /\ op.name = "toggleTask" /\ op.rep
  /\ op.id \in idsOf(tasks) /\ Len(tasks) >= 2

(* C8: with no search term the query gives, for 'completed', the           *)
(* completed tasks, for 'active' the others and for 'all' every task, in  *)
(* the collection's order; asking leaves the collection as it was.        *)
C8_StatusFilter ==
  pc = "ready" =>
    /\ getFilteredTasks(tasks, "completed", <<>>) = pick(tasks, TRUE)
    /\ getFilteredTasks(tasks, "active", <<>>) = pick(tasks, FALSE)
    /\ getFilteredTasks(tasks, "all", <<>>) = tasks
    /\ (searchTerm = <<>> /\ currentFilter = "completed") => view = pick(tasks, TRUE)
    /\ (searchTerm = <<>> /\ currentFilter = "active") => view = pick(tasks, FALSE)
    /\ (searchTerm = <<>> /\ currentFilter = "all") => view = tasks
    /\ op.name \in {"setFilter", "searchInput"} => (tasks = pre /\ storage = preStore)

C8_Witness ==
  /\ pc = "ready" /\ op.name = "setFilter" /\ currentFilter = "completed"
  /\ searchTerm = <<>> /\ view # <<>> /\ Len(view) < Len(tasks)

(* s holds t as a run of neighbouring characters *)
HasRun(s, t) ==
  \E start \in 1..(Len(s) + 1) :
    \A k \in 1..Len(t) : start + k - 1 <= Len(s) /\ s[start + k - 1] = t[k]

SameButCase(a, b) ==
  /\ Len(a) = Len(b)
  /\ \A i \in 1..Len(a) :
       \/ a[i] = b[i]
       \/ \E n \in 1..Len(Upper) : {a[i], b[i]} = {Upper[n], Lower[n]}

PassesStatus(t) ==
  \/ currentFilter = "all"
  \/ currentFilter = "active" /\ ~t.completed
  \/ currentFilter = "completed" /\ t.completed

Found(t, typed) ==
  \/ HasRun(toLowerCase(t.title), toLowerCase(typed))
  \/ HasRun(toLowerCase(t.description), toLowerCase(typed))

RECURSIVE expected(_, _)
expected(ts, typed) ==
  IF ts = <<>> THEN <<>>
  ELSE IF PassesStatus(Head(ts)) /\ Found(Head(ts), typed)
  THEN <<Head(ts)>> \o expected(Tail(ts), typed)
  ELSE expected(Tail(ts), typed)

(* C9: after a term is typed into the search field, a task that passes    *)
(* the status filter is shown exactly when the term, in lower case, is a  *)
(* run of characters of its title or of its description in lower case;    *)
(* a term that differs from the typed one only in letter case would show  *)
(* the same tasks.                                                         *)
C9_SearchCaseInsensitive ==
  (pc = "ready" /\ op.name = "searchInput") =>
    /\ view = expected(tasks, op.text)
    /\ \A other \in SearchInputs :
         SameButCase(other, op.text) =>
           getFilteredTasks(tasks, currentFilter, toLowerCase(other)) = view

C9_Witness ==
  /\ pc = "ready" /\ op.name = "searchInput"
  /\ op.text = <<"M","o","D","u","l","e">>
  /\ Len(tasks) = 3 /\ Len(view) = 2

(* C10: editTask of an id some task has removes the task and saves the    *)
(* shorter collection at once; the task then stays out of the collection  *)
(* and out of the slot unless addTask creates it again, at the front and  *)
(* with a new id; editTask of an id no task has changes neither the       *)
(* collection nor the slot.                                                *)
C10_EditRemovesUntilReAdded ==
  [][ /\ (pc' = "ready" /\ op'.name = "editTask" /\ op'.id \in idsOf(pre')) =>
           /\ tasks' = dropId(pre', op'.id)
           /\ op'.id \notin idsOf(tasks')
           /\ loadTasks(storage').value = tasks'
      /\ (pc' = "ready" /\ op'.name = "editTask" /\ op'.id \notin idsOf(pre')) =>
           (tasks' = pre' /\ storage' = preStore')
      /\ (op.name = "editTask" /\ op.flag) =>
           IF op'.name = "addTask" /\ op'.flag
           THEN Tail(tasks') = tasks /\ Head(tasks').id # op.id
           ELSE /\ op.id \notin idsOf(tasks')
                /\ op.id \notin idsOf(loadTasks(storage').value)
    ]_vars

(* C11: once startup has completed, and after every handler, the slot     *)
(* holds the serialization of the whole collection as it is in memory;    *)
(* a handler that changes the collection (an accepted addTask, editTask   *)
(* of a present id, a confirmed deleteTask, toggleTask) writes the slot   *)
(* exactly once, and no handler writes it more than once.                 *)
C11_SlotIsCollection ==
  pc = "ready" =>
    /\ storage = stringify(tasks)
    /\ loadTasks(storage).value = tasks
    /\ writes <= 1
    /\ (op.name \in {"addTask", "editTask", "deleteTask", "toggleTask"} /\ tasks # pre)
         => writes = 1
    /\ (op.name \in {"addTask", "editTask", "deleteTask"} /\ op.flag) => writes = 1
    /\ op.name = "toggleTask" => writes = 1

C11_Witness ==
  /\ pc = "ready" /\ op.name = "toggleTask" /\ tasks # pre /\ writes = 1
  /\ currentFilter = "active" /\ searchTerm # <<>> /\ Len(tasks) >= 2

====
